---------------------------- MODULE Spec2Model ----------------------------
(***************************************************************************)
(* Retriever-FastAPI: the Gemini batch controller, PostAnalyzer             *)
(* (src/genai/analyzers/post.py).                                           *)
(*                                                                         *)
(* The store is the SQLite database behind SQLAlchemy: table                *)
(* gemini_batch_jobs (jobs) and table gemini_requests (requests).  Every    *)
(* operation opens its own session.  A statement that only reads sees the   *)
(* committed rows; the first INSERT/UPDATE of a session takes the database  *)
(* write lock, which is held until the session commits or rolls back, so a  *)
(* session's writes become visible together, at its commit.  A session     *)
(* that needs the lock waits for it (the busy timeout is not reached).      *)
(* Each worker is one caller of the analyzer (a Celery task, a request      *)
(* handler) in a Python process of its own; an await is a point where the   *)
(* other workers may run.                                                   *)
(***************************************************************************)
EXTENDS Integers, Sequences, FiniteSets, TLC

\* ---------------------------------------------------------------- bounds
NumWorkers == 2
NumPosts == 3
NumSalts == 2
MaxJobs == 3
MaxBatches == 2
MaxOps == 5
MaxRegisters == 2
MaxOpsSeq == 7
MaxOpsTick == 3
MaxTicks == 1
MaxTime == 2
MaxOpsLive == 1
MaxOpsProc == 6
MaxOpsCrawl == 4
MaxTitle == 2
MaxText == 4

\* The size cap of one request file, scaled from 1024 * 1024 * 1024.
MAX_FILE_SIZE_BYTES == 3

\* The quiescence window of the idle sweep, scaled from 120.
IDLE_SECONDS == 1

Workers == 1..NumWorkers
Posts == 1..NumPosts
\* One more post, with the title and the text of post 1 and its own link.
TwinPost == NumPosts + 1
AllPosts == Posts \cup {TwinPost}
Salts == 1..NumSalts

\* JobStatus
ACCEPTING_REQUESTS == "accepting_requests"
PENDING == "pending"
SUBMITTED == "submitted"
PROCESSING == "processing"
COMPLETED == "completed"
FAILED == "failed"

JobStatus == {ACCEPTING_REQUESTS, PENDING, SUBMITTED, PROCESSING, COMPLETED, FAILED}

\* The NULL of column gemini_batch_jobs.name; provider names are 1, 2, ...
NULL == 0
\* In a pending UPDATE: the column is not among the values set.
KEEP == -1

VARIABLES
    jobs,       \* table gemini_batch_jobs: row id -> row (ids autoincrement);
                \* updated_at is set by every UPDATE of the row (onupdate)
    requests,   \* table gemini_requests: the set of rows
    batches,    \* the provider: batch name -> [job, keys, state, lines]
    analysis,   \* the posts collection: post -> its analysis, or "none"
    text,       \* the posts collection: post -> its text, or "null"
    processed,  \* the posts collection: the identifiers <<post, i, j>> of
                \* analysis.promotions.i.identifiers.j whose is_processed is
                \* true
    tempFiles,  \* the disk: the Jobs whose temporary request file is there
    sizing,     \* one Item and the process that registers it, with the two
                \* measures of its request line: [title, text, hash,
                \* estimated, written]
    tasks,      \* the Celery tasks sent: [queued, emitted, analyze], the
                \* telegram_channel_task calls waiting to run, those the last
                \* fan-out sent, and the posts of the analyze_batch_task calls
    writer,     \* the worker whose session holds the write lock, or 0
    salt,       \* per worker: the string-hash seed of its Python process
    pc,         \* per worker: where its operation stands
    loc,        \* per worker: the locals of the running operation
    ret,        \* per worker: what its last finished operation returned
    call,       \* per worker: the last operation started,
                \* [op, post, dup, peer, retry]
    okPosts,    \* posts for which some register call has returned True
    initDone,   \* whether some __aenter__ has run to its end
    opsLeft,    \* how many more operations, and register calls, may start
    now,        \* the clock (datetime.now)
    tick        \* the running poll_gemini_batches_task: [stage, reported,
                \* skipped]; stage 0 when none runs

vars == <<jobs, requests, batches, analysis, text, processed, tasks, processed, tasks, writer, salt,
          pc, loc, ret, call, okPosts, initDone, opsLeft, now, tick>>

\* ------------------------------------------------------------ the tables

\* GeminiBatchJobs(status=ACCEPTING_REQUESTS, file_size_bytes=0, request_count=0)
NewJob ==
    [status |-> ACCEPTING_REQUESTS, name |-> NULL,
     file_size_bytes |-> 0, request_count |-> 0, updated_at |-> now]

JobIds == DOMAIN jobs

\* select(GeminiBatchJobs).where(status == ACCEPTING_REQUESTS)
AcceptingJobs == {j \in JobIds : jobs[j].status = ACCEPTING_REQUESTS}

RECURSIVE SortedSeq(_)
\* The rows of a set of ids in rowid order.
SortedSeq(S) ==
    IF S = {} THEN <<>>
    ELSE LET m == CHOOSE x \in S : \A y \in S : x <= y
         IN <<m>> \o SortedSeq(S \ {m})

\* The Post's title and text, as one value: post p carries text p, and the
\* twin post the text of post 1.
PostText(p) == IF p = TwinPost THEN 1 ELSE p

\* _estimate_request_size: the byte length of the request line of the post;
\* it depends on the title and the text only (the key is "request-temp").
EstimateRequestSize(p) == 2 ^ (PostText(p) - 1)

\* request_key = f"request-{abs(hash(f'{post.title}:{post.text}'))}": Python
\* salts the hash of a string with the seed of the process that computes it.
RequestKey(w, p) == <<salt[w], PostText(p)>>

\* select(GeminiRequests).where(request_key == key)
RequestsWithKey(k) == {r \in requests : r.request_key = k}

\* The Posts whose request rows belong to Job j (GeminiRequests.batch_job_id).
RequestsOf(j) == {r \in requests : r.batch_job_id = j}

\* ------------------------------------------------------------ the workers

NoLoc ==
    [op |-> "none", post |-> 0, snap |-> <<>>, idx |-> 0,
     cur |-> 0, curSize |-> 0, curCount |-> 0, tx |-> <<>>, txKeys |-> {},
     names |-> 0, errs |-> {}, hit |-> {}]

\* The operation of worker w ends, returning v.
Finish(w, v) ==
    /\ pc' = [pc EXCEPT ![w] = "idle"]
    /\ loc' = [loc EXCEPT ![w] = NoLoc]
    /\ ret' = [ret EXCEPT ![w] = v]

\* Another worker is inside a register call for post p.
RegisterRunning(w, p) ==
    \E v \in Workers \ {w} :
        pc[v] # "idle" /\ loc[v].op = "register" /\ loc[v].post = p

\* No Item is measured.
NoSizing == [title |-> 0, text |-> 0, hash |-> 0, estimated |-> NULL,
             written |-> NULL]

\* No task was sent.
NoTasks == [queued |-> {}, emitted |-> {}, analyze |-> {}]

\* The promotions of an analysis with drugs_related true, each with its
\* identifiers: two promotions, of two identifiers and of one.
DrugsPromotions == << <<"a", "b">>, <<"c">> >>

\* analysis.promotions of an analysis of kind k.
Promotions(k) == IF k = "drugs" THEN DrugsPromotions ELSE <<>>

\* The identifiers <<p, i, j>> of post p: analysis.promotions.i.identifiers.j
\* (indexes from 0, as in the paths).
IdentifiersOf(p) ==
    LET pr == Promotions(analysis[p])
    IN {<<p, i - 1, j - 1>> : <<i, j>> \in
           {x \in (DOMAIN pr) \X (1..2) : x[2] \in DOMAIN pr[x[1]]}}

\* The call telegram_channel_task(identifier, post id, path) for the
\* identifier x of the posts collection.
TaskOf(x) ==
    [identifier |-> Promotions(analysis[x[1]])[x[2] + 1][x[3] + 1],
     post |-> x[1], path |-> <<x[2], x[3]>>]

\* No poll_gemini_batches_task is running.
NoTick == [stage |-> 0, reported |-> {}, skipped |-> {}]

\* The calls of one poll_gemini_batches_task on the analyzer, in order; the
\* task is a singleton, run by worker 1.
TickOps == <<"aenter", "sweep", "submit", "check", "process">>

\* Worker w is inside the task: its next call is TickOps[tick.stage].
InTick(w) == w = 1 /\ tick.stage > 0

\* Every request row of post p belongs to a FAILED Job, there is such a row,
\* and the post has no analysis.
FailedOnly(p) ==
    LET rows == {r \in requests : r.post_link = p}
    IN /\ rows # {}
       /\ \A r \in rows : jobs[r.batch_job_id].status = FAILED
       /\ analysis[p] = "none"

\* Worker w starts operation op (on post p, or 0).  The call record keeps
\* whether a register call for p had returned True before (dup), whether
\* another worker's register call for p is running (peer), and whether p is
\* registered in FAILED Jobs only (retry).
Begin(w, op, p) ==
    /\ pc[w] = "idle"
    /\ IF InTick(w)
       THEN /\ tick.stage <= Len(TickOps)
            /\ op = TickOps[tick.stage]
            /\ tick' = [tick EXCEPT !.stage = @ + 1]
            /\ opsLeft' = opsLeft
       ELSE /\ opsLeft.all > 0
            /\ op = "register" => opsLeft.register > 0
            /\ opsLeft' = [opsLeft EXCEPT
                              !.all = @ - 1,
                              !.register = IF op = "register" THEN @ - 1 ELSE @]
            /\ tick' = tick
    /\ call' = [call EXCEPT ![w] = [op |-> op, post |-> p, dup |-> p \in okPosts,
                                    peer |-> RegisterRunning(w, p),
                                    retry |-> p \in DOMAIN analysis /\ FailedOnly(p)]]

\* The empty tables.  The seeds matter only by which of them are equal, so
\* worker 1 has seed 1.
Init ==
    /\ jobs = <<>>
    /\ requests = {}
    /\ batches = <<>>
    /\ analysis = [p \in Posts |-> "none"]
    /\ text = [p \in Posts |-> "text"]
    /\ processed = {}
    /\ tasks = NoTasks
    /\ tempFiles = {}
    /\ sizing = NoSizing
    /\ writer = 0
    /\ salt \in {f \in [Workers -> Salts] : f[1] = 1}
    /\ pc = [w \in Workers |-> "idle"]
    /\ loc = [w \in Workers |-> NoLoc]
    /\ ret = [w \in Workers |-> "none"]
    /\ call = [w \in Workers |->
                 [op |-> "none", post |-> 0, dup |-> FALSE, peer |-> FALSE,
                  retry |-> FALSE]]
    /\ okPosts = {}
    /\ initDone = FALSE
    /\ opsLeft = [all |-> MaxOps, register |-> MaxRegisters, ticks |-> 0]
    /\ now = 0
    /\ tick = NoTick

\* ------------------------------------ _ensure_accepting_requests_job

\* What the caller of _ensure_accepting_requests_job returns: submit_batch
\* the names of the batches it created, the sweep the Job it flipped.
EnsureResult(op, names) ==
    IF op = "submit" /\ names > 0 THEN "names"
    ELSE IF op = "sweep" /\ names > 0 THEN "flipped"
    ELSE "None"

\* The caller of _ensure_accepting_requests_job returns once it is done.
AfterEnsure(w) ==
    /\ Finish(w, EnsureResult(loc[w].op, loc[w].names))
    /\ initDone' = (initDone \/ loc[w].op = "aenter")

\* The select takes the PENDING rows for ACCEPTING_REQUESTS rows as well.
EnsureSelectPending(w, op) ==
    LET acc == SortedSeq({j \in JobIds :
                    jobs[j].status \in {ACCEPTING_REQUESTS, PENDING}}) IN
    IF Len(acc) = 0 THEN
        /\ pc' = [pc EXCEPT ![w] = "ensure_insert"]
        /\ loc' = [loc EXCEPT ![w] = [@ EXCEPT !.op = op, !.snap = <<>>, !.tx = <<>>]]
        /\ UNCHANGED <<ret, initDone>>
    ELSE IF Len(acc) > 1 THEN
        /\ pc' = [pc EXCEPT ![w] = "ensure_demote"]
        /\ loc' = [loc EXCEPT ![w] = [@ EXCEPT !.op = op, !.snap = Tail(acc), !.tx = <<>>]]
        /\ UNCHANGED <<ret, initDone>>
    ELSE
        /\ Finish(w, EnsureResult(op, loc[w].names))
        /\ initDone' = (initDone \/ op = "aenter")

\* The select of the ACCEPTING_REQUESTS rows, and the branch on their number.
EnsureSelect(w, op) ==
    LET acc == SortedSeq(AcceptingJobs) IN
    IF Len(acc) = 0 THEN
        /\ pc' = [pc EXCEPT ![w] = "ensure_insert"]
        /\ loc' = [loc EXCEPT ![w] = [@ EXCEPT !.op = op, !.snap = <<>>, !.tx = <<>>]]
        /\ UNCHANGED <<ret, initDone>>
    ELSE IF Len(acc) > 1 THEN
        /\ pc' = [pc EXCEPT ![w] = "ensure_demote"]
        /\ loc' = [loc EXCEPT ![w] = [@ EXCEPT !.op = op, !.snap = Tail(acc), !.tx = <<>>]]
        /\ UNCHANGED <<ret, initDone>>
    ELSE
        /\ Finish(w, EnsureResult(op, loc[w].names))
        /\ initDone' = (initDone \/ op = "aenter")

\* __aenter__: create_all, then _ensure_accepting_requests_job.
Enter(w) ==
    /\ Begin(w, "aenter", 0)
    /\ EnsureSelect(w, "aenter")
    /\ UNCHANGED <<jobs, requests, batches, analysis, text, tempFiles, sizing, processed, tasks, writer, salt,
                   okPosts, now>>

\* _ensure_accepting_requests_job, called by submit_batch and reset_batch
\* after their commit.
EnsureRead(w) ==
    /\ pc[w] = "ensure_read"
    /\ EnsureSelect(w, loc[w].op)
    /\ UNCHANGED <<jobs, requests, batches, analysis, text, tempFiles, sizing, processed, tasks, writer, salt,
                   call, okPosts, opsLeft, now, tick>>

\* No ACCEPTING_REQUESTS row was selected: add one and commit.
EnsureInsert(w) ==
    /\ pc[w] = "ensure_insert"
    /\ writer = 0
    /\ Len(jobs) < MaxJobs
    /\ jobs' = Append(jobs, NewJob)
    /\ AfterEnsure(w)
    /\ UNCHANGED <<requests, batches, analysis, text, tempFiles, sizing, processed, tasks, writer, salt, call,
                   okPosts, opsLeft, now, tick>>

\* Several were selected: keep the first, set the others to PENDING by id.
EnsureDemote(w) ==
    /\ pc[w] = "ensure_demote"
    /\ writer = 0
    /\ jobs' = [j \in JobIds |->
                  IF \E k \in DOMAIN loc[w].snap : loc[w].snap[k] = j
                  THEN [jobs[j] EXCEPT !.status = PENDING, !.updated_at = now]
                  ELSE jobs[j]]
    /\ AfterEnsure(w)
    /\ UNCHANGED <<requests, batches, analysis, text, tempFiles, sizing, processed, tasks, writer, salt, call,
                   okPosts, opsLeft, now, tick>>

\* ------------------------------------------------------------ register

\* is_accepting_requests: scalar_one_or_none over the ACCEPTING_REQUESTS rows
\* raises when there are several (outside register's try), and register
\* returns False when there is none.
RegisterCheck(w, p) ==
    /\ Begin(w, "register", p)
    /\ IF Cardinality(AcceptingJobs) = 1 THEN
          /\ pc' = [pc EXCEPT ![w] = "reg_existing"]
          /\ loc' = [loc EXCEPT ![w] = [NoLoc EXCEPT !.op = "register", !.post = p]]
          /\ UNCHANGED ret
       ELSE Finish(w, IF AcceptingJobs = {} THEN "False" ELSE "raised")
    /\ UNCHANGED <<jobs, requests, batches, analysis, text, tempFiles, sizing, processed, tasks, writer, salt,
                   okPosts, initDone, now>>

\* The select by request_key: a row found means "already registered", True.
RegisterExisting(w) ==
    /\ pc[w] = "reg_existing"
    /\ IF RequestsWithKey(RequestKey(w, loc[w].post)) # {} THEN
          /\ Finish(w, "True")
          /\ okPosts' = okPosts \cup {loc[w].post}
       ELSE
          /\ pc' = [pc EXCEPT ![w] = "reg_current"]
          /\ UNCHANGED <<loc, ret, okPosts>>
    /\ UNCHANGED <<jobs, requests, batches, analysis, text, tempFiles, sizing, processed, tasks, writer, salt,
                   call, initDone, opsLeft, now, tick>>

\* The select of the current ACCEPTING_REQUESTS row with scalar_one(): no
\* row or several rows raise, and the except branch returns False.
RegisterCurrent(w) ==
    /\ pc[w] = "reg_current"
    /\ IF Cardinality(AcceptingJobs) = 1 THEN
          LET j == CHOOSE x \in AcceptingJobs : TRUE IN
          /\ pc' = [pc EXCEPT ![w] = "reg_write"]
          /\ loc' = [loc EXCEPT ![w] = [@ EXCEPT !.cur = j,
                        !.curSize = jobs[j].file_size_bytes,
                        !.curCount = jobs[j].request_count]]
          /\ UNCHANGED ret
       ELSE Finish(w, "False")
    /\ UNCHANGED <<jobs, requests, batches, analysis, text, tempFiles, sizing, processed, tasks, writer, salt,
                   call, okPosts, initDone, opsLeft, now, tick>>

\* The size check on the row as it was read.
NeedsRollover(size, est) == size + est > MAX_FILE_SIZE_BYTES

\* The counters written for the Job the request goes to: the values read
\* (or 0 for the Job just added) plus this request.
CountersAfter(size, count, est) ==
    [file_size_bytes |-> size + est, request_count |-> count + 1]

\* The writes of register, in one transaction: the rollover when the size
\* read plus the estimate exceeds the cap (the current row set to PENDING by
\* id, a new ACCEPTING_REQUESTS row added), the INSERT of the request row and
\* the UPDATE of the counters, then commit.  The INSERT fails on the unique
\* request_key when a row with the key exists: everything is rolled back and
\* False is returned.
RegisterWrite(w) ==
    /\ pc[w] = "reg_write"
    /\ writer = 0
    /\ LET p == loc[w].post
           est == EstimateRequestSize(p)
           roll == NeedsRollover(loc[w].curSize, est)
           target == IF roll THEN Len(jobs) + 1 ELSE loc[w].cur
           base == IF roll
                   THEN Append([jobs EXCEPT ![loc[w].cur].status = PENDING,
                                            ![loc[w].cur].updated_at = now],
                               NewJob)
                   ELSE jobs
           c == IF roll THEN CountersAfter(0, 0, est)
                ELSE CountersAfter(loc[w].curSize, loc[w].curCount, est)
           row == [request_key |-> RequestKey(w, p), batch_job_id |-> target,
                   post_link |-> p, estimated_size_bytes |-> est,
                   is_processed |-> FALSE]
       IN /\ roll => Len(jobs) < MaxJobs
          /\ IF RequestsWithKey(RequestKey(w, p)) # {} THEN
                /\ Finish(w, "False")
                /\ UNCHANGED <<jobs, requests, okPosts>>
             ELSE
                /\ jobs' = [base EXCEPT
                              ![target].file_size_bytes = c.file_size_bytes,
                              ![target].request_count = c.request_count,
                              ![target].updated_at = now]
                /\ requests' = requests \cup {row}
                /\ okPosts' = okPosts \cup {p}
                /\ Finish(w, "True")
    /\ UNCHANGED <<batches, analysis, text, tempFiles, sizing, processed, tasks, writer, salt, call, initDone,
                   opsLeft, now, tick>>

\* ------------------------------------------------------- the transaction

\* The rows of jobs after the pending UPDATEs tx (each by id, whatever the
\* row's status is by then) are committed.
ApplyTx(tx) ==
    [j \in JobIds |->
        IF \E k \in DOMAIN tx : tx[k].id = j
        THEN LET u == tx[CHOOSE k \in DOMAIN tx : tx[k].id = j]
             IN [jobs[j] EXCEPT !.status = u.status,
                                !.name = IF u.name = KEEP THEN @ ELSE u.name,
                                !.updated_at = now]
        ELSE jobs[j]]

\* Worker w may write: the lock is free or its own session holds it.
CanWrite(w) == writer \in {0, w}

\* The lock after the commit of worker w's session.
Released(w) == IF writer = w THEN 0 ELSE writer

\* After the job at loc[w].idx: the next one, or the commit at the loop's end.
NextJob(w, commit) ==
    IF loc[w].idx < Len(loc[w].snap) THEN pc[w] ELSE commit

\* --------------------------------------------------------- submit_batch

\* The rows submit_batch selects: ACCEPTING_REQUESTS or PENDING with requests.
JobsToSubmit ==
    {j \in JobIds : /\ jobs[j].status \in {ACCEPTING_REQUESTS, PENDING}
                    /\ jobs[j].request_count > 0}

\* The unprocessed request rows of the Job, which make up its request file.
FileRequests(j) == {r \in RequestsOf(j) : ~r.is_processed}

\* The select of the Jobs to submit; with none, None is returned at once.
SubmitRead(w) ==
    /\ Begin(w, "submit", 0)
    /\ IF JobsToSubmit = {} THEN Finish(w, "None")
       ELSE /\ pc' = [pc EXCEPT ![w] = "sub_job"]
            /\ loc' = [loc EXCEPT ![w] = [NoLoc EXCEPT !.op = "submit",
                          !.snap = SortedSeq(JobsToSubmit), !.idx = 1]]
            /\ UNCHANGED ret
    /\ UNCHANGED <<jobs, requests, batches, analysis, text, tempFiles, sizing, processed, tasks, writer, salt,
                   okPosts, initDone, now>>

\* One turn of the loop.  A Job without unprocessed requests is passed over.
\* Otherwise the file is written and uploaded, the provider creates the
\* batch, and the UPDATE by id to SUBMITTED with the batch's name joins the
\* session's transaction; the finally branch unlinks the file.
SubmitJob(w) ==
    /\ pc[w] = "sub_job"
    /\ LET j == loc[w].snap[loc[w].idx] IN
       IF FileRequests(j) = {} THEN
          /\ loc' = [loc EXCEPT ![w].idx = @ + 1]
          /\ UNCHANGED <<batches, writer>>
       ELSE
          /\ CanWrite(w)
          /\ Len(batches) < MaxBatches
          /\ batches' = Append(batches,
                 [job |-> j, keys |-> {r.request_key : r \in FileRequests(j)},
                  state |-> "RUNNING", lines |-> <<>>])
          /\ loc' = [loc EXCEPT ![w] = [@ EXCEPT !.idx = @ + 1, !.names = @ + 1,
                        !.tx = Append(@, [id |-> j, status |-> SUBMITTED,
                                          name |-> Len(batches) + 1])]]
          /\ writer' = w
    /\ pc' = [pc EXCEPT ![w] = NextJob(w, "sub_commit")]
    /\ UNCHANGED <<jobs, requests, analysis, text, tempFiles, sizing, processed, tasks, salt, ret, call, okPosts,
                   initDone, opsLeft, now, tick>>

\* SubmitFail with the loop left at the first Job that fails.
SubmitFailBreaking(w) ==
    /\ pc[w] = "sub_job"
    /\ CanWrite(w)
    /\ LET j == loc[w].snap[loc[w].idx] IN
       /\ FileRequests(j) # {}
       /\ loc' = [loc EXCEPT ![w] = [@ EXCEPT !.idx = @ + 1,
                     !.tx = Append(@, [id |-> j, status |-> FAILED, name |-> KEEP])]]
    /\ writer' = w
    /\ pc' = [pc EXCEPT ![w] = "sub_commit"]
    /\ UNCHANGED <<jobs, requests, batches, analysis, text, tempFiles, sizing, processed, tasks, salt, ret, call,
                   okPosts, initDone, opsLeft, now, tick>>

\* One turn of the loop in which the upload or the creation raises: the
\* finally branch unlinks the file and the except branch queues the UPDATE
\* by id to FAILED.
SubmitFail(w) ==
    /\ pc[w] = "sub_job"
    /\ CanWrite(w)
    /\ LET j == loc[w].snap[loc[w].idx] IN
       /\ FileRequests(j) # {}
       /\ loc' = [loc EXCEPT ![w] = [@ EXCEPT !.idx = @ + 1,
                     !.tx = Append(@, [id |-> j, status |-> FAILED, name |-> KEEP])]]
    /\ writer' = w
    /\ pc' = [pc EXCEPT ![w] = NextJob(w, "sub_commit")]
    /\ UNCHANGED <<jobs, requests, batches, analysis, text, tempFiles, sizing, processed, tasks, salt, ret, call,
                   okPosts, initDone, opsLeft, now, tick>>

\* One turn of the loop in which writing the request file raises (the
\* write, or json.loads of a row's contents): the file was created with
\* delete=False and the with block only closes it; the statement is outside
\* the try whose finally unlinks the file, so the file stays, and the except
\* branch queues the UPDATE by id to FAILED.
SubmitWriteFail(w) ==
    /\ pc[w] = "sub_job"
    /\ CanWrite(w)
    /\ LET j == loc[w].snap[loc[w].idx] IN
       /\ FileRequests(j) # {}
       /\ tempFiles' = tempFiles \cup {j}
       /\ loc' = [loc EXCEPT ![w] = [@ EXCEPT !.idx = @ + 1,
                     !.tx = Append(@, [id |-> j, status |-> FAILED, name |-> KEEP])]]
    /\ writer' = w
    /\ pc' = [pc EXCEPT ![w] = NextJob(w, "sub_commit")]
    /\ UNCHANGED <<jobs, requests, batches, analysis, text, processed, tasks, sizing, salt,
                   ret, call, okPosts, initDone, opsLeft, now, tick>>

\* session.commit() after the loop; _ensure_accepting_requests_job follows.
SubmitCommit(w) ==
    /\ pc[w] = "sub_commit"
    /\ jobs' = ApplyTx(loc[w].tx)
    /\ writer' = Released(w)
    /\ pc' = [pc EXCEPT ![w] = "ensure_read"]
    /\ loc' = [loc EXCEPT ![w].tx = <<>>]
    /\ UNCHANGED <<requests, batches, analysis, text, tempFiles, sizing, processed, tasks, salt, ret, call,
                   okPosts, initDone, opsLeft, now, tick>>

\* --------------------------------------------------- check_batch_status

\* The rows check_batch_status selects.
ActiveJobs ==
    {j \in JobIds : /\ jobs[j].status \in {SUBMITTED, PROCESSING}
                    /\ jobs[j].name # NULL}

\* NewStatus with a batch that is still running taken for a completed one.
NewStatusEager(state) ==
    IF state \in {"COMPLETED", "RUNNING"} THEN COMPLETED
    ELSE IF state \in {"FAILED", "CANCELLED"} THEN FAILED
    ELSE "None"

\* The status the poll derives from the provider's state of the batch.
NewStatus(state) ==
    IF state = "COMPLETED" THEN COMPLETED
    ELSE IF state \in {"FAILED", "CANCELLED"} THEN FAILED
    ELSE IF state = "RUNNING" THEN PROCESSING
    ELSE "None"

\* The rows as selected: the loop works on these copies.
Snapshot(S) ==
    LET ids == SortedSeq(S)
    IN [k \in DOMAIN ids |->
           [id |-> ids[k], status |-> jobs[ids[k]].status, name |-> jobs[ids[k]].name]]

PollRead(w) ==
    /\ Begin(w, "check", 0)
    /\ IF ActiveJobs = {} THEN Finish(w, "None")
       ELSE /\ pc' = [pc EXCEPT ![w] = "poll_job"]
            /\ loc' = [loc EXCEPT ![w] = [NoLoc EXCEPT !.op = "check",
                          !.snap = Snapshot(ActiveJobs), !.idx = 1]]
            /\ UNCHANGED ret
    /\ UNCHANGED <<jobs, requests, batches, analysis, text, tempFiles, sizing, processed, tasks, writer, salt,
                   okPosts, initDone, now>>

\* One turn of the loop: batches.get, then the UPDATE by id when the new
\* status differs from the status selected.
PollJob(w) ==
    /\ pc[w] = "poll_job"
    /\ LET job == loc[w].snap[loc[w].idx]
           new == NewStatus(batches[job.name].state)
       IN /\ IF new # "None" /\ new # job.status THEN
                /\ CanWrite(w)
                /\ writer' = w
                /\ loc' = [loc EXCEPT ![w] = [@ EXCEPT !.idx = @ + 1,
                              !.tx = Append(@, [id |-> job.id, status |-> new,
                                                name |-> KEEP])]]
             ELSE
                /\ loc' = [loc EXCEPT ![w].idx = @ + 1]
                /\ UNCHANGED writer
          /\ tick' = IF InTick(w) /\ new = COMPLETED /\ job.status = SUBMITTED
                     THEN [tick EXCEPT !.reported = @ \cup {job.id}]
                     ELSE tick
    /\ pc' = [pc EXCEPT ![w] = NextJob(w, "poll_commit")]
    /\ UNCHANGED <<jobs, requests, batches, analysis, text, tempFiles, sizing, processed, tasks, salt, ret, call,
                   okPosts, initDone, opsLeft, now>>

\* PollError with the Job whose batch cannot be fetched set to FAILED.
PollErrorFailing(w) ==
    /\ pc[w] = "poll_job"
    /\ CanWrite(w)
    /\ loc' = [loc EXCEPT ![w] = [@ EXCEPT !.idx = @ + 1,
                  !.errs = @ \cup {loc[w].snap[loc[w].idx].id},
                  !.tx = Append(@, [id |-> loc[w].snap[loc[w].idx].id,
                                    status |-> FAILED, name |-> KEEP])]]
    /\ pc' = [pc EXCEPT ![w] = NextJob(w, "poll_commit")]
    /\ UNCHANGED <<jobs, requests, batches, analysis, text, tempFiles, sizing, processed, tasks, writer, salt,
                   ret, call, okPosts, initDone, opsLeft, now, tick>>

\* One turn of the loop in which batches.get raises (the provider fails or
\* does not know the name): logged, the Job is left as it is.  errs keeps
\* the Jobs of the call for which it raised.
PollError(w) ==
    /\ pc[w] = "poll_job"
    /\ loc' = [loc EXCEPT ![w] = [@ EXCEPT !.idx = @ + 1,
                  !.errs = @ \cup {loc[w].snap[loc[w].idx].id}]]
    /\ pc' = [pc EXCEPT ![w] = NextJob(w, "poll_commit")]
    /\ UNCHANGED <<jobs, requests, batches, analysis, text, tempFiles, sizing, processed, tasks, writer, salt,
                   ret, call, okPosts, initDone, opsLeft, now, tick>>

PollCommit(w) ==
    /\ pc[w] = "poll_commit"
    /\ jobs' = ApplyTx(loc[w].tx)
    /\ writer' = Released(w)
    /\ Finish(w, "jobs")
    /\ UNCHANGED <<requests, batches, analysis, text, tempFiles, sizing, processed, tasks, salt, call, okPosts,
                   initDone, opsLeft, now, tick>>

\* ---------------------------------------------------------- reset_batch

\* UPDATE ... SET status = FAILED WHERE status != COMPLETED
ResetRows ==
    [j \in JobIds |->
        IF jobs[j].status # COMPLETED
        THEN [jobs[j] EXCEPT !.status = FAILED, !.updated_at = now]
        ELSE jobs[j]]

\* The UPDATE and its commit; _ensure_accepting_requests_job follows.
Reset(w) ==
    /\ Begin(w, "reset", 0)
    /\ writer = 0
    /\ jobs' = ResetRows
    /\ pc' = [pc EXCEPT ![w] = "ensure_read"]
    /\ loc' = [loc EXCEPT ![w] = [NoLoc EXCEPT !.op = "reset",
                  !.hit = {j \in JobIds : jobs[j].status # COMPLETED}]]
    /\ UNCHANGED <<requests, batches, analysis, text, tempFiles, sizing, processed, tasks, writer, salt, ret,
                   okPosts, initDone, now>>

\* ----------------------------------------------- process_completed_jobs

\* The select of process_completed_jobs with the status of a Job whose
\* batch is still running.
CompletedJobsProcessing ==
    {j \in JobIds : jobs[j].status = PROCESSING /\ jobs[j].name # NULL}

\* The rows process_completed_jobs selects.
CompletedJobs ==
    {j \in JobIds : jobs[j].status = COMPLETED /\ jobs[j].name # NULL}

ProcessRead(w) ==
    /\ Begin(w, "process", 0)
    /\ IF CompletedJobs = {} THEN Finish(w, "processed")
       ELSE /\ pc' = [pc EXCEPT ![w] = "proc_job"]
            /\ loc' = [loc EXCEPT ![w] = [NoLoc EXCEPT !.op = "process",
                          !.snap = Snapshot(CompletedJobs), !.idx = 1]]
            /\ UNCHANGED ret
    /\ UNCHANGED <<jobs, requests, batches, analysis, text, tempFiles, sizing, processed, tasks, writer, salt,
                   okPosts, initDone, now>>

\* What a line of a result file comes to in the loop over the lines:
\*   "drugs"  the response text is a JSON object with drugs_related true
\*   "clean"  the response text is a JSON object with drugs_related false
\*   "other"  the text is another non-empty JSON object (no drugs_related, or
\*            the error entry of the line, which json.dumps makes the text)
\*   "prose"  the response text is not a JSON object
\*   "skip"   the line is not JSON or has neither response text nor error
LineKinds == {"drugs", "clean", "other", "prose", "skip"}

\* The kinds of line in the result files of the concurrent specification.
FileKinds == {"drugs", "skip"}

\* The request row a line refers to: scalar_one_or_none over the unique key.
RowOfKey(k) == {r \in requests : r.request_key = k}

\* ApplyLine with the analysis accumulated on the post instead of set: a
\* second analysis of a post that has one leaves "many".
ApplyLineAccumulating(d, line) ==
    IF line.kind \in {"skip", "prose"} \/ RowOfKey(line.key) = {} THEN d
    ELSE LET p == (CHOOSE r \in RowOfKey(line.key) : TRUE).post_link
         IN [analysis |-> [d.analysis EXCEPT ![p] =
                              IF @ = "none" THEN line.kind ELSE "many"],
             text |-> [d.text EXCEPT ![p] =
                          IF line.kind = "drugs" THEN "text" ELSE "null"]]

\* The posts collection after one line: update_one by the row's post_link,
\* $set analysis, and text (the row's post_text when drugs_related is true,
\* None otherwise).  d is [analysis, text].
ApplyLine(d, line) ==
    IF line.kind \in {"skip", "prose"} \/ RowOfKey(line.key) = {} THEN d
    ELSE LET p == (CHOOSE r \in RowOfKey(line.key) : TRUE).post_link
         IN [analysis |-> [d.analysis EXCEPT ![p] = line.kind],
             text |-> [d.text EXCEPT ![p] =
                          IF line.kind = "drugs" THEN "text" ELSE "null"]]

RECURSIVE ApplyLines(_, _)
\* The posts collection after the lines of a result file, in file order.
ApplyLines(d, lines) ==
    IF lines = <<>> THEN d
    ELSE ApplyLines(ApplyLine(d, Head(lines)), Tail(lines))

\* The keys of the request rows the loop marks processed (result and
\* is_processed are set for every line with a text and a row).
ProcessedKeys(lines) ==
    {lines[i].key : i \in {n \in DOMAIN lines :
                              /\ lines[n].kind # "skip"
                              /\ RowOfKey(lines[n].key) # {}}}

\* The posts whose analysis the lines set: $set of the whole analysis
\* replaces the promotions and their identifiers, is_processed included.
AppliedPosts(lines) ==
    {(CHOOSE r \in RowOfKey(lines[n].key) : TRUE).post_link :
        n \in {i \in DOMAIN lines : /\ lines[i].kind \notin {"skip", "prose"}
                                    /\ RowOfKey(lines[i].key) # {}}}

\* One turn of the loop: the result file is downloaded; for each line the
\* request row of the line's key is marked processed (in the session's
\* transaction) and the analysis is set on the post of the row's link (in
\* the posts collection, at once).
ProcessJob(w) ==
    /\ pc[w] = "proc_job"
    /\ LET job == loc[w].snap[loc[w].idx]
           lines == batches[job.name].lines
           d == ApplyLines([analysis |-> analysis, text |-> text], lines)
       IN /\ batches[job.name].state = "COMPLETED"
          /\ ProcessedKeys(lines) # {} => CanWrite(w)
          /\ analysis' = d.analysis
          /\ text' = d.text
          /\ processed' = {x \in processed : x[1] \notin AppliedPosts(lines)}
          /\ loc' = [loc EXCEPT ![w] = [@ EXCEPT !.idx = @ + 1,
                        !.txKeys = @ \cup ProcessedKeys(lines)]]
          /\ writer' = IF ProcessedKeys(lines) # {} THEN w ELSE writer
    /\ pc' = [pc EXCEPT ![w] = NextJob(w, "proc_commit")]
    /\ UNCHANGED <<jobs, requests, batches, tasks, tempFiles, sizing, salt, ret, call,
                   okPosts, initDone, opsLeft, now, tick>>

\* One turn of the loop without a result: batches.get raises or names no
\* result file; the Job is skipped.
ProcessSkip(w) ==
    /\ pc[w] = "proc_job"
    /\ loc' = [loc EXCEPT ![w].idx = @ + 1]
    /\ pc' = [pc EXCEPT ![w] = NextJob(w, "proc_commit")]
    /\ tick' = IF InTick(w)
               THEN [tick EXCEPT !.skipped = @ \cup {loc[w].snap[loc[w].idx].id}]
               ELSE tick
    /\ UNCHANGED <<jobs, requests, batches, analysis, text, tempFiles, sizing, processed, tasks, writer, salt,
                   ret, call, okPosts, initDone, opsLeft, now>>

\* session.commit(): the request rows become processed; no Job row changes.
ProcessCommit(w) ==
    /\ pc[w] = "proc_commit"
    /\ requests' = {IF r.request_key \in loc[w].txKeys
                    THEN [r EXCEPT !.is_processed = TRUE] ELSE r : r \in requests}
    /\ writer' = Released(w)
    /\ Finish(w, "processed")
    /\ UNCHANGED <<jobs, batches, analysis, text, tempFiles, sizing, processed, tasks, salt, call, okPosts,
                   initDone, opsLeft, now, tick>>

\* ------------------------------------------------------------ the provider

\* The result files the provider may write for the requests K: one line
\* for every key, in any order, each of any kind.
ResultFiles(K) ==
    {ls \in [1..Cardinality(K) -> [key : K, kind : LineKinds]] :
        \A i, j \in 1..Cardinality(K) : i # j => ls[i].key # ls[j].key}

\* The provider ends a running batch: it fails, or it completes with a
\* result file whose lines are of the kinds given.
ProviderFinish(h, kinds) ==
    /\ batches[h].state = "RUNNING"
    /\ \/ batches' = [batches EXCEPT ![h].state = "FAILED"]
       \/ \E ls \in ResultFiles(batches[h].keys) :
             /\ \A i \in DOMAIN ls : ls[i].kind \in kinds
             /\ batches' = [batches EXCEPT ![h].state = "COMPLETED", ![h].lines = ls]
    /\ UNCHANGED <<jobs, requests, analysis, text, tempFiles, sizing, processed, tasks, writer, salt, pc, loc,
                   ret, call, okPosts, initDone, opsLeft, now, tick>>

\* The states of a batch that check_batch_status has no branch for:
\* batch_info.state is compared with "COMPLETED", "FAILED", "CANCELLED" and
\* "RUNNING" only.
OtherStates == {"SUCCEEDED", "EXPIRED", "PENDING"}

\* The provider reports a running batch in another state: cancelled, or in
\* a state of OtherStates.
ProviderEnd(h) ==
    /\ batches[h].state = "RUNNING"
    /\ \E s \in OtherStates \cup {"CANCELLED"} :
          batches' = [batches EXCEPT ![h].state = s]
    /\ UNCHANGED <<jobs, requests, analysis, text, tempFiles, sizing, processed, tasks, writer, salt, pc, loc,
                   ret, call, okPosts, initDone, opsLeft, now, tick>>

Next ==
    \/ \E w \in Workers : Enter(w)
    \/ \E w \in Workers : EnsureRead(w)
    \/ \E w \in Workers : EnsureInsert(w)
    \/ \E w \in Workers : EnsureDemote(w)
    \/ \E w \in Workers, p \in Posts : RegisterCheck(w, p)
    \/ \E w \in Workers : RegisterExisting(w)
    \/ \E w \in Workers : RegisterCurrent(w)
    \/ \E w \in Workers : RegisterWrite(w)
    \/ \E w \in Workers : SubmitRead(w)
    \/ \E w \in Workers : SubmitJob(w)
    \/ \E w \in Workers : SubmitFail(w)
    \/ \E w \in Workers : SubmitCommit(w)
    \/ \E w \in Workers : PollRead(w)
    \/ \E w \in Workers : PollJob(w)
    \/ \E w \in Workers : PollError(w)
    \/ \E w \in Workers : PollCommit(w)
    \/ \E w \in Workers : Reset(w)
    \/ \E w \in Workers : ProcessRead(w)
    \/ \E w \in Workers : ProcessJob(w)
    \/ \E w \in Workers : ProcessSkip(w)
    \/ \E w \in Workers : ProcessCommit(w)
    \/ \E h \in DOMAIN batches : ProviderFinish(h, FileKinds)

Spec == Init /\ [][Next]_vars

\* ------------------------------------------------- one caller at a time

\* The operations called one after the other by a single process, with
\* result files of every kind of line.
InitSeq ==
    /\ jobs = <<>>
    /\ requests = {}
    /\ batches = <<>>
    /\ analysis = [p \in Posts |-> "none"]
    /\ text = [p \in Posts |-> "text"]
    /\ processed = {}
    /\ tasks = NoTasks
    /\ tempFiles = {}
    /\ sizing = NoSizing
    /\ writer = 0
    /\ salt = [w \in Workers |-> 1]
    /\ pc = [w \in Workers |-> "idle"]
    /\ loc = [w \in Workers |-> NoLoc]
    /\ ret = [w \in Workers |-> "none"]
    /\ call = [w \in Workers |->
                 [op |-> "none", post |-> 0, dup |-> FALSE, peer |-> FALSE,
                  retry |-> FALSE]]
    /\ okPosts = {}
    /\ initDone = FALSE
    /\ opsLeft = [all |-> MaxOpsSeq, register |-> MaxRegisters, ticks |-> 0]
    /\ now = 0
    /\ tick = NoTick

NextSeq ==
    \/ Enter(1)
    \/ EnsureRead(1)
    \/ EnsureInsert(1)
    \/ \E p \in Posts : RegisterCheck(1, p)
    \/ RegisterExisting(1)
    \/ RegisterCurrent(1)
    \/ RegisterWrite(1)
    \/ SubmitRead(1)
    \/ SubmitJob(1)
    \/ SubmitFail(1)
    \/ SubmitWriteFail(1)
    \/ SubmitCommit(1)
    \/ PollRead(1)
    \/ PollJob(1)
    \/ PollError(1)
    \/ PollCommit(1)
    \/ Reset(1)
    \/ ProcessRead(1)
    \/ ProcessJob(1)
    \/ ProcessSkip(1)
    \/ ProcessCommit(1)
    \/ \E h \in DOMAIN batches : ProviderFinish(h, LineKinds)
    \/ \E h \in DOMAIN batches : ProviderEnd(h)

SpecSeq == InitSeq /\ [][NextSeq]_vars

\* ------------------------------------------- poll_gemini_batches_task

\* The Jobs the idle sweep may flip: ACCEPTING_REQUESTS, with Items, and not
\* updated for more than IDLE_SECONDS.
IdleJobs ==
    {j \in JobIds : /\ jobs[j].status = ACCEPTING_REQUESTS
                    /\ jobs[j].request_count > 0
                    /\ jobs[j].updated_at < now - IDLE_SECONDS}

\* The task starts: async with PostAnalyzer() as analyzer.
TickStart ==
    /\ pc[1] = "idle"
    /\ tick.stage = 0
    /\ opsLeft.ticks > 0
    /\ tick' = [NoTick EXCEPT !.stage = 1]
    /\ opsLeft' = [opsLeft EXCEPT !.ticks = @ - 1]
    /\ UNCHANGED <<jobs, requests, batches, analysis, text, tempFiles, sizing, processed, tasks, writer, salt, pc,
                   loc, ret, call, okPosts, initDone, now>>

\* flip_idle_accepting_job_to_pending: find one idle Job and set it to
\* PENDING in one step, then make sure an ACCEPTING_REQUESTS Job exists.
Sweep(w) ==
    /\ InTick(w)
    /\ Begin(w, "sweep", 0)
    /\ writer = 0
    /\ IF IdleJobs = {}
       THEN /\ jobs' = jobs
            /\ loc' = [loc EXCEPT ![w] = [NoLoc EXCEPT !.op = "sweep"]]
       ELSE \E j \in IdleJobs :
            /\ jobs' = [jobs EXCEPT ![j] = [@ EXCEPT !.status = PENDING,
                                                     !.updated_at = now]]
            /\ loc' = [loc EXCEPT ![w] = [NoLoc EXCEPT !.op = "sweep",
                                                       !.names = j]]
    /\ pc' = [pc EXCEPT ![w] = "ensure_read"]
    /\ UNCHANGED <<requests, batches, analysis, text, tempFiles, sizing, processed, tasks, writer, salt, ret,
                   okPosts, initDone, now>>

\* The first $match of the aggregation: the posts with no identifier whose
\* is_processed is true ($ne on a path through arrays holds when no element
\* has the value), posts without analysis or identifiers included.
MatchedPosts ==
    {p \in DOMAIN analysis : \A x \in IdentifiersOf(p) : x \notin processed}

\* The documents the aggregation returns: the two $unwind stages give one
\* document for every identifier of the matched posts, the second $match
\* keeps those whose is_processed is not true.
FanOut ==
    {x \in UNION {IdentifiersOf(p) : p \in MatchedPosts} : x \notin processed}

\* FanOut without the first $match: every identifier of every post whose
\* is_processed is not true.
FanOutUnwound ==
    {x \in UNION {IdentifiersOf(p) : p \in DOMAIN analysis} : x \notin processed}

\* The task ends after its last call on the analyzer with
\* invoke_telegram_task: one telegram_channel_task.delay for every document
\* of the aggregation.
TickEnd ==
    /\ pc[1] = "idle"
    /\ tick.stage = Len(TickOps) + 1
    /\ tick' = NoTick
    /\ tasks' = [tasks EXCEPT !.queued = @ \cup {TaskOf(x) : x \in FanOut},
                              !.emitted = {TaskOf(x) : x \in FanOut}]
    /\ UNCHANGED <<jobs, requests, batches, analysis, text, tempFiles, sizing, processed, writer, salt, pc,
                   loc, ret, call, okPosts, initDone, opsLeft, now>>

\* telegram_channel_task runs to its end, or to an expected error: the
\* channel is collected and is_processed is set at the path of the post.
TelegramTask(t) ==
    /\ t \in tasks.queued
    /\ processed' = processed \cup {<<t.post, t.path[1], t.path[2]>>}
    /\ tasks' = [tasks EXCEPT !.queued = @ \ {t}]
    /\ UNCHANGED <<jobs, requests, batches, analysis, text, tempFiles, sizing, writer, salt, pc,
                   loc, ret, call, okPosts, initDone, opsLeft, now, tick>>

\* telegram_channel_task raises an error that is not expected: nothing is
\* set on the post.
TelegramTaskRaise(t) ==
    /\ t \in tasks.queued
    /\ tasks' = [tasks EXCEPT !.queued = @ \ {t}]
    /\ UNCHANGED <<jobs, requests, batches, analysis, text, tempFiles, sizing, processed, writer, salt,
                   pc, loc, ret, call, okPosts, initDone, opsLeft, now, tick>>

\* Time passes: datetime.now grows.
Clock ==
    /\ now < MaxTime
    /\ now' = now + 1
    /\ UNCHANGED <<jobs, requests, batches, analysis, text, tempFiles, sizing, processed, tasks, writer, salt, pc,
                   loc, ret, call, okPosts, initDone, opsLeft, tick>>

\* One process that runs the task between its other calls, while time
\* passes.
InitTick ==
    /\ jobs = <<>>
    /\ requests = {}
    /\ batches = <<>>
    /\ analysis = [p \in Posts |-> "none"]
    /\ text = [p \in Posts |-> "text"]
    /\ processed = {}
    /\ tasks = NoTasks
    /\ tempFiles = {}
    /\ sizing = NoSizing
    /\ writer = 0
    /\ salt = [w \in Workers |-> 1]
    /\ pc = [w \in Workers |-> "idle"]
    /\ loc = [w \in Workers |-> NoLoc]
    /\ ret = [w \in Workers |-> "none"]
    /\ call = [w \in Workers |->
                 [op |-> "none", post |-> 0, dup |-> FALSE, peer |-> FALSE,
                  retry |-> FALSE]]
    /\ okPosts = {}
    /\ initDone = FALSE
    /\ opsLeft = [all |-> MaxOpsTick, register |-> MaxRegisters,
                  ticks |-> MaxTicks]
    /\ now = 0
    /\ tick = NoTick

NextTick ==
    \/ TickStart
    \/ Sweep(1)
    \/ TickEnd
    \/ Clock
    \/ Enter(1)
    \/ EnsureRead(1)
    \/ EnsureInsert(1)
    \/ \E p \in Posts : RegisterCheck(1, p)
    \/ RegisterExisting(1)
    \/ RegisterCurrent(1)
    \/ RegisterWrite(1)
    \/ SubmitRead(1)
    \/ SubmitJob(1)
    \/ SubmitFail(1)
    \/ SubmitCommit(1)
    \/ PollRead(1)
    \/ PollJob(1)
    \/ PollError(1)
    \/ PollCommit(1)
    \/ Reset(1)
    \/ ProcessRead(1)
    \/ ProcessJob(1)
    \/ ProcessSkip(1)
    \/ ProcessCommit(1)
    \/ \E h \in DOMAIN batches : ProviderFinish(h, LineKinds)

SpecTick == InitTick /\ [][NextTick]_vars

\* ------------------------------------------------ the task, for ever

\* The beat schedule starts the task again, every 60 seconds.
TickRepeat ==
    /\ pc[1] = "idle"
    /\ tick.stage = 0
    /\ tick' = [NoTick EXCEPT !.stage = 1]
    /\ UNCHANGED <<jobs, requests, batches, analysis, text, tempFiles, sizing, processed, tasks, writer, salt, pc,
                   loc, ret, call, okPosts, initDone, opsLeft, now>>

\* One process that runs the task again and again, with MaxOpsLive other
\* calls in between.
InitLive ==
    /\ jobs = <<>>
    /\ requests = {}
    /\ batches = <<>>
    /\ analysis = [p \in Posts |-> "none"]
    /\ text = [p \in Posts |-> "text"]
    /\ processed = {}
    /\ tasks = NoTasks
    /\ tempFiles = {}
    /\ sizing = NoSizing
    /\ writer = 0
    /\ salt = [w \in Workers |-> 1]
    /\ pc = [w \in Workers |-> "idle"]
    /\ loc = [w \in Workers |-> NoLoc]
    /\ ret = [w \in Workers |-> "none"]
    /\ call = [w \in Workers |->
                 [op |-> "none", post |-> 0, dup |-> FALSE, peer |-> FALSE,
                  retry |-> FALSE]]
    /\ okPosts = {}
    /\ initDone = FALSE
    /\ opsLeft = [all |-> MaxOpsLive, register |-> MaxRegisters, ticks |-> 0]
    /\ now = 0
    /\ tick = NoTick

\* A step of the process inside one of its calls on the analyzer.
AnalyzerStep ==
    \/ Sweep(1)
    \/ Enter(1)
    \/ EnsureRead(1)
    \/ EnsureInsert(1)
    \/ \E p \in Posts : RegisterCheck(1, p)
    \/ RegisterExisting(1)
    \/ RegisterCurrent(1)
    \/ RegisterWrite(1)
    \/ SubmitRead(1)
    \/ SubmitJob(1)
    \/ SubmitFail(1)
    \/ SubmitCommit(1)
    \/ PollRead(1)
    \/ PollJob(1)
    \/ PollError(1)
    \/ PollCommit(1)
    \/ Reset(1)
    \/ ProcessRead(1)
    \/ ProcessJob(1)
    \/ ProcessSkip(1)
    \/ ProcessCommit(1)

\* The provider ends a running batch.
ProviderStep == \E h \in DOMAIN batches : ProviderFinish(h, LineKinds)

NextLive ==
    \/ TickRepeat
    \/ TickEnd
    \/ Clock
    \/ AnalyzerStep
    \/ ProviderStep

\* The task keeps being started and its calls keep returning; the provider
\* ends every batch; batches.get does not raise for ever, in the poll
\* (PollJob) or in the processing (ProcessJob).
Fairness ==
    /\ WF_vars(TickRepeat)
    /\ WF_vars(TickEnd)
    /\ WF_vars(AnalyzerStep)
    /\ WF_vars(ProviderStep)
    /\ SF_vars(PollJob(1))
    /\ SF_vars(ProcessJob(1))

SpecLive == InitLive /\ [][NextLive]_vars /\ Fairness

\* --------------------------------------- the task and the telegram tasks

\* The process that runs the task again and again, and the workers that run
\* the telegram_channel_task calls it sends.
NextFan ==
    \/ TickRepeat
    \/ TickEnd
    \/ AnalyzerStep
    \/ \E h \in DOMAIN batches : ProviderFinish(h, FileKinds)
    \/ \E t \in tasks.queued : TelegramTask(t)
    \/ \E t \in tasks.queued : TelegramTaskRaise(t)

SpecFan == InitLive /\ [][NextFan]_vars

\* ------------------------------------------------------ crawl_page_task

\* The text a crawl may extract from a page: some text, or none at all
\* (extract returns "" for a page without usable text).
CrawledTexts == {"text", ""}

\* crawl_page_task for a post not crawled yet, when the crawler returns a
\* result with text t: html and text are stored on the post and
\* analyze_batch_task is sent.  (When the crawler returns None, nothing is
\* stored or sent.)
Crawl(p, t) ==
    /\ text[p] = "null"
    /\ p \notin tasks.analyze
    /\ text' = [text EXCEPT ![p] = t]
    /\ tasks' = [tasks EXCEPT !.analyze = @ \cup {p}]
    /\ UNCHANGED <<jobs, requests, batches, analysis, processed, tempFiles, sizing, writer,
                   salt, pc, loc, ret, call, okPosts, initDone, opsLeft, now, tick>>

\* The posts are not crawled yet: they have no text.
InitCrawl ==
    /\ jobs = <<>>
    /\ requests = {}
    /\ batches = <<>>
    /\ analysis = [p \in Posts |-> "none"]
    /\ text = [p \in Posts |-> "null"]
    /\ processed = {}
    /\ tasks = NoTasks
    /\ tempFiles = {}
    /\ sizing = NoSizing
    /\ writer = 0
    /\ salt = [w \in Workers |-> 1]
    /\ pc = [w \in Workers |-> "idle"]
    /\ loc = [w \in Workers |-> NoLoc]
    /\ ret = [w \in Workers |-> "none"]
    /\ call = [w \in Workers |->
                 [op |-> "none", post |-> 0, dup |-> FALSE, peer |-> FALSE,
                  retry |-> FALSE]]
    /\ okPosts = {}
    /\ initDone = FALSE
    /\ opsLeft = [all |-> MaxOpsCrawl, register |-> MaxOpsCrawl, ticks |-> 0]
    /\ now = 0
    /\ tick = NoTick

\* The crawl tasks, and one process that runs analyze_batch_task for the
\* posts it was sent for and submits.
NextCrawl ==
    \/ \E p \in Posts, t \in CrawledTexts : Crawl(p, t)
    \/ Enter(1)
    \/ EnsureRead(1)
    \/ EnsureInsert(1)
    \/ \E p \in tasks.analyze : RegisterCheck(1, p)
    \/ RegisterExisting(1)
    \/ RegisterCurrent(1)
    \/ RegisterWrite(1)
    \/ SubmitRead(1)
    \/ SubmitJob(1)
    \/ SubmitFail(1)
    \/ SubmitCommit(1)

SpecCrawl == InitCrawl /\ [][NextCrawl]_vars

\* ------------------------------------------------- the request line

\* The bytes of a request line without its key and its contents:
\* {"key": "", "request": {"contents": , "generation_config":
\* {"temperature": 0.2}}} and the newline.
FrameBytes == 82

\* The bytes of the contents of a post with empty title and text: the
\* instruction and the JSON around it (the prompts of the template add a
\* fixed number of bytes more, the same in every line).
PromptBytes == 258

\* The bytes of "request-temp", the key of the line that is measured.
TempKeyBytes == 12

\* The bytes of "request-", the head of a request_key.
KeyPrefixBytes == 8

\* abs(hash(...)) of some titles and texts in some processes.
HashValues == {0, 7, 1234, 54321, 2 ^ 20, 2 ^ 30}

RECURSIVE Digits(_)
\* The number of decimal digits of n.
Digits(n) == IF n < 10 THEN 1 ELSE 1 + Digits(n \div 10)

\* The bytes of json.dumps(self.format(post)) for a title and a text of the
\* given numbers of bytes.
ContentsBytes(title, txt) == PromptBytes + title + txt

\* len((json.dumps(batch_data, ensure_ascii=False) + "\n").encode("utf-8"))
\* for a key of k bytes.
LineBytes(k, title, txt) == FrameBytes + k + ContentsBytes(title, txt)

\* _estimate_request_size: the line with the key "request-temp".
EstimateBytes(title, txt) == LineBytes(TempKeyBytes, title, txt)

\* The line submit_batch writes for the request row: its key is the row's
\* request_key, f"request-{abs(post_hash)}".
WrittenBytes(h, title, txt) == LineBytes(KeyPrefixBytes + Digits(h), title, txt)

\* register measures the Item.
EstimateSize ==
    /\ sizing.estimated = NULL
    /\ sizing' = [sizing EXCEPT
                     !.estimated = EstimateBytes(sizing.title, sizing.text)]
    /\ UNCHANGED <<jobs, requests, batches, analysis, text, processed, tasks,
                   tempFiles, writer, salt, pc, loc, ret, call, okPosts,
                   initDone, opsLeft, now, tick>>

\* submit_batch writes the line of the Item.
WriteLine ==
    /\ sizing.written = NULL
    /\ sizing' = [sizing EXCEPT
                     !.written = WrittenBytes(sizing.hash, sizing.title, sizing.text)]
    /\ UNCHANGED <<jobs, requests, batches, analysis, text, processed, tasks,
                   tempFiles, writer, salt, pc, loc, ret, call, okPosts,
                   initDone, opsLeft, now, tick>>

\* An Item with a title and a text of some numbers of bytes, in a process
\* where the hash of its title and text has some value.
InitSize ==
    /\ jobs = <<>>
    /\ requests = {}
    /\ batches = <<>>
    /\ analysis = [p \in Posts |-> "none"]
    /\ text = [p \in Posts |-> "text"]
    /\ processed = {}
    /\ tasks = NoTasks
    /\ tempFiles = {}
    /\ sizing \in [title : 0..MaxTitle, text : 0..MaxText, hash : HashValues,
                    estimated : {NULL}, written : {NULL}]
    /\ writer = 0
    /\ salt = [w \in Workers |-> 1]
    /\ pc = [w \in Workers |-> "idle"]
    /\ loc = [w \in Workers |-> NoLoc]
    /\ ret = [w \in Workers |-> "none"]
    /\ call = [w \in Workers |->
                 [op |-> "none", post |-> 0, dup |-> FALSE, peer |-> FALSE,
                  retry |-> FALSE]]
    /\ okPosts = {}
    /\ initDone = FALSE
    /\ opsLeft = [all |-> 0, register |-> 0, ticks |-> 0]
    /\ now = 0
    /\ tick = NoTick

NextSize ==
    \/ EstimateSize
    \/ WriteLine

SpecSize == InitSize /\ [][NextSize]_vars

\* ------------------------------------------- one process after another

\* The posts registered where processes call one after another: post 1 and
\* its twin.
ProcPosts == {1, TwinPost}

\* A step of worker w inside one of its calls on the analyzer.
CallStep(w) ==
    \/ Enter(w)
    \/ EnsureRead(w)
    \/ EnsureInsert(w)
    \/ \E p \in ProcPosts : RegisterCheck(w, p)
    \/ RegisterExisting(w)
    \/ RegisterCurrent(w)
    \/ RegisterWrite(w)
    \/ SubmitRead(w)
    \/ SubmitJob(w)
    \/ SubmitFail(w)
    \/ SubmitCommit(w)
    \/ PollRead(w)
    \/ PollJob(w)
    \/ PollError(w)
    \/ PollCommit(w)
    \/ Reset(w)
    \/ ProcessRead(w)
    \/ ProcessJob(w)
    \/ ProcessSkip(w)
    \/ ProcessCommit(w)

\* The calls of several processes, each with its own hash seed, one call at
\* a time, on posts that include the twin post.
InitProc ==
    /\ jobs = <<>>
    /\ requests = {}
    /\ batches = <<>>
    /\ analysis = [p \in ProcPosts |-> "none"]
    /\ text = [p \in ProcPosts |-> "text"]
    /\ processed = {}
    /\ tasks = NoTasks
    /\ tempFiles = {}
    /\ sizing = NoSizing
    /\ writer = 0
    /\ salt \in {f \in [Workers -> Salts] : f[1] = 1}
    /\ pc = [w \in Workers |-> "idle"]
    /\ loc = [w \in Workers |-> NoLoc]
    /\ ret = [w \in Workers |-> "none"]
    /\ call = [w \in Workers |->
                 [op |-> "none", post |-> 0, dup |-> FALSE, peer |-> FALSE,
                  retry |-> FALSE]]
    /\ okPosts = {}
    /\ initDone = FALSE
    /\ opsLeft = [all |-> MaxOpsProc, register |-> MaxRegisters, ticks |-> 0]
    /\ now = 0
    /\ tick = NoTick

NextProc ==
    \/ \E w \in Workers :
          /\ \A v \in Workers \ {w} : pc[v] = "idle"
          /\ CallStep(w)
    \/ \E h \in DOMAIN batches : ProviderFinish(h, FileKinds)

SpecProc == InitProc /\ [][NextProc]_vars

\* ------------------------------------------------------------- the claims

\* The Items (posts, by link) whose request rows are in Job j.
ItemsOf(j) == {r.post_link : r \in RequestsOf(j)}

\* A Job that is neither COMPLETED nor FAILED.
NonTerminal(j) ==
    jobs[j].status \in {ACCEPTING_REQUESTS, PENDING, SUBMITTED, PROCESSING}

\* The worker whose operation takes the step.
Acting(w) == pc'[w] # pc[w] \/ loc'[w] # loc[w]

\* No operation is in progress.
Quiescent == \A w \in Workers : pc[w] = "idle"

\* C1: in every reachable state at most one Job has status ACCEPTING.
C1_AtMostOneAccepting == Cardinality(AcceptingJobs) <= 1

\* C2: in every reachable state no Item is a member of two different
\* non-terminal Jobs.
C2_SingleOwnership ==
    \A p \in Posts : \A j, k \in JobIds :
        (j # k /\ NonTerminal(j) /\ NonTerminal(k))
            => ~(p \in ItemsOf(j) /\ p \in ItemsOf(k))

\* C3: for every Job in every reachable state, file_size_bytes is at most
\* MAX_BATCH_BYTES, whatever the sizes registered.
C3_SizeWithinCap ==
    \A j \in JobIds : jobs[j].file_size_bytes <= MAX_FILE_SIZE_BYTES

\* C4: for every Job in every reachable state, item_count equals the number
\* of Items registered in that Job.
C4_CountIsNumberOfItems ==
    \A j \in JobIds : jobs[j].request_count = Cardinality(ItemsOf(j))

\* C5: once a Job's status is COMPLETED, no step of check_batch_status,
\* submit_batch, reset_batch or process_completed_jobs changes it.
C5_CompletedIsStable ==
    [][\A w \in Workers :
          (Acting(w) /\ call'[w].op \in {"check", "submit", "reset", "process"})
              => \A j \in JobIds :
                    jobs[j].status = COMPLETED => jobs'[j].status = COMPLETED]_vars

\* The status that follows s in the sequence ACCEPTING, PENDING, SUBMITTED,
\* PROCESSED, COMPLETED.
Following(s) ==
    CASE s = ACCEPTING_REQUESTS -> PENDING
      [] s = PENDING -> SUBMITTED
      [] s = SUBMITTED -> PROCESSING
      [] s = PROCESSING -> COMPLETED
      [] OTHER -> "none"

\* C6: every status change of a Job moves it to the immediately following
\* status of the sequence, or to FAILED.
C6_TransitionsInOrder ==
    [][\A j \in JobIds :
          jobs'[j].status # jobs[j].status
              => jobs'[j].status \in {Following(jobs[j].status), FAILED}]_vars

\* C7: once a Job's status is FAILED, no operation changes that Job's status.
C7_FailedIsStable ==
    [][\A j \in JobIds :
          jobs[j].status = FAILED => jobs'[j].status = FAILED]_vars

\* C8: when register is called for an Item after an earlier register call
\* for it has returned true, the call returns false, and the Item has been
\* counted into a Job exactly once.
C8_SecondRegisterReturnsFalse ==
    \A w \in Workers :
        (pc[w] = "idle" /\ call[w].op = "register" /\ call[w].dup)
            => /\ ret[w] = "False"
               /\ Cardinality({r \in requests : r.post_link = call[w].post}) = 1

\* C9: when two workers call register concurrently for the same Item, not
\* registered before, exactly one call returns true and the Item is counted
\* into a Job exactly once (stated for the stores that hold one ACCEPTING
\* Job, where every register call finds its Job).
C9_ConcurrentRegisterOnce ==
    \A w, v \in Workers :
        (/\ w # v /\ pc[w] = "idle" /\ pc[v] = "idle"
         /\ call[w].op = "register" /\ call[v].op = "register"
         /\ call[w].post = call[v].post
         /\ call[w].peer /\ ~call[v].peer
         /\ Cardinality(AcceptingJobs) = 1
         /\ ~call[w].dup /\ ~call[v].dup)
            => /\ (ret[w] = "True") # (ret[v] = "True")
               /\ Cardinality({r \in requests : r.post_link = call[w].post}) = 1

\* C10: whenever no operation is in progress, after initialisation has run,
\* exactly one Job has status ACCEPTING.
C10_OneAcceptingWhenQuiescent ==
    (initDone /\ Quiescent) => Cardinality(AcceptingJobs) = 1

\* C11: a register call that records the Item adds it to the open Job exactly
\* when file_size_bytes + estimated size <= MAX_BATCH_BYTES; otherwise the
\* open Job becomes PENDING with its counters unchanged, a new ACCEPTING Job
\* is created, the Item is recorded in the new Job, and the Items of the two
\* Jobs are disjoint.
C11_RolloverAtCap ==
    [][\A w \in Workers :
          (pc[w] = "reg_write" /\ Acting(w) /\ requests' # requests)
              => LET j == loc[w].cur
                     est == EstimateRequestSize(loc[w].post)
                     n == Len(jobs) + 1
                 IN IF jobs[j].file_size_bytes + est <= MAX_FILE_SIZE_BYTES
                    THEN /\ Len(jobs') = Len(jobs)
                         /\ \A r \in requests' \ requests : r.batch_job_id = j
                    ELSE /\ Len(jobs') = n
                         /\ jobs'[j].status = PENDING
                         /\ jobs'[j].file_size_bytes = jobs[j].file_size_bytes
                         /\ jobs'[j].request_count = jobs[j].request_count
                         /\ jobs'[n].status = ACCEPTING_REQUESTS
                         /\ \A r \in requests' \ requests : r.batch_job_id = n
                         /\ ItemsOf(j)' \cap ItemsOf(n)' = {}]_vars

RECURSIVE SumOfSizes(_)
\* The sum of the estimated sizes of a set of Items.
SumOfSizes(S) ==
    IF S = {} THEN 0
    ELSE LET p == CHOOSE x \in S : TRUE
         IN EstimateRequestSize(p) + SumOfSizes(S \ {p})

\* C12: for every Job in every reachable state, file_size_bytes equals the
\* sum of the estimated sizes of the Items registered in that Job.
C12_SizeIsSumOfItems ==
    \A j \in JobIds : jobs[j].file_size_bytes = SumOfSizes(ItemsOf(j))

\* C13: a register call for an Item that is registered in FAILED Jobs only
\* and has no analysis, made while a Job is open, returns true and records
\* the Item in the open ACCEPTING Job, whose counters are incremented.
C13_FailedItemRegistersAgain ==
    [][\A w \in Workers :
          (/\ call[w].op = "register" /\ call[w].retry
           /\ pc[w] # "idle" /\ pc'[w] = "idle")
              => /\ ret'[w] = "True"
                 /\ \E r \in requests' \ requests :
                       /\ r.post_link = call[w].post
                       /\ jobs'[r.batch_job_id].status = ACCEPTING_REQUESTS
                       /\ jobs'[r.batch_job_id].request_count > 0]_vars

\* The posts collection as it is.
PostsNow == [analysis |-> analysis, text |-> text]

\* C14: applying the result file of a completed batch to the posts a second
\* time leaves every post as the first application left it.
C14_CompleterIdempotent ==
    \A h \in DOMAIN batches :
        batches[h].state = "COMPLETED"
            => LET once == ApplyLines(PostsNow, batches[h].lines)
               IN ApplyLines(once, batches[h].lines) = once

\* process_completed_jobs has applied, a second time, the lines of a result
\* file whose request rows an earlier run marked processed.
C14_AppliedTwice ==
    /\ pc[1] = "proc_commit"
    /\ \E r \in requests :
          /\ r.is_processed
          /\ r.request_key \in loc[1].txKeys
          /\ analysis[r.post_link] # "none"

\* C15: once a run of the Completer has processed the lines of a Job's
\* result file (its request rows are marked processed), no later run
\* applies that result again.
C15_ResultAppliedOnce ==
    [][\A w \in Workers :
          pc[w] = "proc_job"
              => \A r \in requests :
                    (r.is_processed /\ r.request_key \in loc'[w].txKeys)
                        => r.request_key \in loc[w].txKeys]_vars

\* The lines of a result file that carry a valid analysis.
ValidKinds == {"drugs", "clean"}

ValidResultFile(j) ==
    /\ jobs[j].name # NULL
    /\ batches[jobs[j].name].state = "COMPLETED"
    /\ \A r \in RequestsOf(j) :
          \E i \in DOMAIN batches[jobs[j].name].lines :
             /\ batches[jobs[j].name].lines[i].key = r.request_key
             /\ batches[jobs[j].name].lines[i].kind \in ValidKinds

\* The task has made its last call on the analyzer, and the call is over.
TickOver == tick.stage = Len(TickOps) + 1 /\ pc[1] = "idle"

C18_PollErrorLeavesJob ==
    [][\A w \in Workers :
          /\ (pc[w] = "poll_commit" /\ Acting(w))
                => \A j \in loc[w].errs : jobs'[j] = jobs[j]
          /\ (pc[w] = "poll_job" /\ loc'[w].errs # loc[w].errs)
                => /\ jobs' = jobs
                   /\ pc'[w] = IF loc[w].idx < Len(loc[w].snap) THEN "poll_job"
                                ELSE "poll_commit"]_vars

\* A poll in which batches.get raised for a SUBMITTED Job and a Job selected
\* after it was polled, with its new status waiting for the commit.
C18_PolledAfterError ==
    \E w \in Workers :
        /\ pc[w] = "poll_commit"
        /\ \E j \in loc[w].errs :
              /\ jobs[j].status = SUBMITTED
              /\ \E k \in DOMAIN loc[w].tx : loc[w].tx[k].id > j

\* C19: a Job with item_count = 0 is never flipped from ACCEPTING to
\* PENDING, whichever operation takes the step.
C19_EmptyJobNotFlipped ==
    [][\A j \in JobIds :
          (jobs[j].status = ACCEPTING_REQUESTS /\ jobs[j].request_count = 0)
              => jobs'[j].status # PENDING]_vars

Registered(p) == \E r \in requests : r.post_link = p

\* Post p has a request row in a FAILED Job.
InFailedJob(p) ==
    \E r \in requests : r.post_link = p /\ jobs[r.batch_job_id].status = FAILED

\* C21: while the task keeps running and the provider ends every batch,
\* every registered Item comes to have its analysis set or to be in a FAILED
\* Job, one of the two and not both.
C21_EveryItemSettles ==
    \A p \in Posts :
        Registered(p) ~> ((analysis[p] # "none") # InFailedJob(p))

\* C22: a Job becomes SUBMITTED only from PENDING with requests; the
\* ACCEPTING_REQUESTS Job is never submitted.
C22_SubmittedOnlyFromPending ==
    [][\A j \in JobIds :
          (jobs'[j].status = SUBMITTED /\ jobs[j].status # SUBMITTED) =>
              (jobs[j].status = PENDING /\ jobs[j].request_count > 0)]_vars

\* C23: for a SUBMITTED Job the poll queues the transition to the status of
\* a Job whose batch succeeded (COMPLETED here, set by the poll) when the
\* provider reports SUCCEEDED, and the transition to FAILED when it reports
\* FAILED, CANCELLED or EXPIRED.
C23_PollMapsProviderState ==
    [][\A w \in Workers :
          (/\ pc[w] = "poll_job"
           /\ pc'[w] \in {"poll_job", "poll_commit"}
           /\ loc'[w].idx = loc[w].idx + 1
           /\ loc'[w].errs = loc[w].errs) =>
              LET job == loc[w].snap[loc[w].idx]
                  state == batches[job.name].state
                  want == IF state = "SUCCEEDED" THEN COMPLETED
                          ELSE IF state \in {"FAILED", "CANCELLED", "EXPIRED"}
                               THEN FAILED
                          ELSE "None"
              IN (job.status = SUBMITTED /\ want # "None") =>
                     loc'[w].tx = Append(loc[w].tx,
                         [id |-> job.id, status |-> want, name |-> KEEP])]_vars

\* C24: for a SUBMITTED Job whose batch the provider reports PENDING,
\* RUNNING or in a state it has no mapping for, the poll queues no update,
\* and the commit of a poll without updates leaves the jobs table as it is.
C24_PollLeavesJobAlone ==
    [][\A w \in Workers :
          /\ (/\ pc[w] = "poll_job"
              /\ pc'[w] \in {"poll_job", "poll_commit"}
              /\ loc'[w].idx = loc[w].idx + 1
              /\ loc'[w].errs = loc[w].errs) =>
                 LET job == loc[w].snap[loc[w].idx]
                     state == batches[job.name].state
                 IN (/\ job.status = SUBMITTED
                     /\ state \notin {"SUCCEEDED", "COMPLETED", "FAILED",
                                      "CANCELLED", "EXPIRED"}) =>
                        loc'[w].tx = loc[w].tx
          /\ (pc[w] = "poll_commit" /\ pc'[w] = "idle" /\ loc[w].tx = <<>>) =>
                 jobs' = jobs]_vars

\* C25: a register call for a post that has no request row and no analysis,
\* started while no Job is ACCEPTING_REQUESTS (after some __aenter__ has
\* run), goes on to add a Job and the request: it does not end at once.
\* The caller is the only worker that is in no call.
C25_RegisterOpensJob ==
    [][\A w \in Workers :
          (/\ opsLeft'.register < opsLeft.register
           /\ initDone
           /\ AcceptingJobs = {}
           /\ pc[w] = "idle"
           /\ \A v \in Workers \ {w} : pc[v] # "idle"
           /\ ~Registered(call'[w].post)
           /\ analysis[call'[w].post] = "none") =>
              pc'[w] # "idle"]_vars

\* C26: when the upload or the creation of the batch raises for a Job in
\* submit_batch, the update of that Job to FAILED is queued without a name
\* and the loop goes on; the commit makes every Job of the call FAILED
\* with its name left as it was, or SUBMITTED with the name of its batch, as
\* queued.
C26_FailedSubmitIsolated ==
    [][\A w \in Workers :
          /\ (/\ pc[w] = "sub_job"
              /\ pc'[w] \in {"sub_job", "sub_commit"}
              /\ batches' = batches
              /\ loc'[w].tx # loc[w].tx) =>
                 /\ loc'[w].tx = Append(loc[w].tx,
                        [id |-> loc[w].snap[loc[w].idx],
                         status |-> FAILED, name |-> KEEP])
                 /\ loc'[w].idx = loc[w].idx + 1
                 /\ loc'[w].idx <= Len(loc[w].snap) => pc'[w] = "sub_job"
          /\ (pc[w] = "sub_commit" /\ pc'[w] = "ensure_read") =>
                 \A k \in DOMAIN loc[w].tx :
                    LET u == loc[w].tx[k] IN
                    IF u.status = FAILED
                    THEN /\ jobs'[u.id].status = FAILED
                         /\ jobs'[u.id].name = jobs[u.id].name
                    ELSE jobs'[u.id].status = SUBMITTED /\ jobs'[u.id].name = u.name]_vars

\* A submit_batch call over two Jobs has committed: the upload failed for
\* one, which is FAILED without a name, and the other is SUBMITTED with the
\* name of its batch.
C26_OneFailedOneSubmitted ==
    \E w \in Workers :
        /\ pc[w] = "ensure_read"
        /\ loc[w].op = "submit"
        /\ loc[w].names = 1
        /\ Len(loc[w].snap) = 2
        /\ \E a, b \in DOMAIN loc[w].snap :
              /\ jobs[loc[w].snap[a]].status = FAILED
              /\ jobs[loc[w].snap[a]].name = NULL
              /\ jobs[loc[w].snap[b]].status = SUBMITTED
              /\ jobs[loc[w].snap[b]].name # NULL

\* C27: the analysis of a post is set only from a line that is a JSON
\* object of the analysis schema (kinds "drugs" and "clean"); a line of any
\* other kind leaves the analysis of its post as it was.
C27_OnlyValidLinesApplied ==
    [][\A p \in Posts :
          analysis'[p] # analysis[p] => analysis'[p] \in ValidKinds]_vars

\* C28: applying a result line leaves the text of every post as it was
\* (title and link are never written; the posts hold no Job reference).
C28_LineLeavesTextAlone ==
    [][\A p \in Posts : text'[p] = text[p]]_vars

\* C29: after every step, a Job that is ACCEPTING_REQUESTS or PENDING has no
\* name (the provider's handle), a Job that is SUBMITTED, PROCESSING or
\* COMPLETED has one, and no step changes a name that is set.
C29_HandleMatchesStatus ==
    [][\A j \in DOMAIN jobs' :
          /\ jobs'[j].status \in {ACCEPTING_REQUESTS, PENDING} =>
                jobs'[j].name = NULL
          /\ jobs'[j].status \in {SUBMITTED, PROCESSING, COMPLETED} =>
                jobs'[j].name # NULL
          /\ (j \in JobIds /\ jobs[j].name # NULL) =>
                jobs'[j].name = jobs[j].name]_vars

\* C30: the writes of a register call are all or nothing.  Either one
\* request row for the post is added, True is returned, and the
\* request_count and file_size_bytes of the row's Job go up by one and by
\* the row's size; or the jobs and the requests are left as they were and
\* True is not returned.
C30_RegisterAllOrNothing ==
    [][\A w \in Workers :
          (pc[w] = "reg_write" /\ pc'[w] = "idle") =>
              IF requests' # requests
              THEN \E r \in requests' \ requests :
                      /\ requests' = requests \cup {r}
                      /\ r.post_link = loc[w].post
                      /\ ret'[w] = "True"
                      /\ LET j == r.batch_job_id
                             old == IF j \in JobIds THEN jobs[j] ELSE NewJob
                         IN /\ jobs'[j].request_count = old.request_count + 1
                            /\ jobs'[j].file_size_bytes =
                                  old.file_size_bytes + r.estimated_size_bytes
              ELSE jobs' = jobs /\ ret'[w] # "True"]_vars

\* C31: when reset_batch returns, every Job its UPDATE matched (the Jobs
\* that were not COMPLETED) is FAILED, and exactly one Job is
\* ACCEPTING_REQUESTS, with zero counters.  (The UPDATE itself leaves the
\* COMPLETED Jobs as they are: ResetRows.)
C31_ResetLeavesOneAccepting ==
    [][\A w \in Workers :
          (pc[w] # "idle" /\ pc'[w] = "idle" /\ loc[w].op = "reset") =>
              /\ \A j \in loc[w].hit : jobs'[j].status = FAILED
              /\ \E a \in DOMAIN jobs' :
                    /\ \A j \in DOMAIN jobs' :
                          jobs'[j].status = ACCEPTING_REQUESTS <=> j = a
                    /\ jobs'[a].request_count = 0
                    /\ jobs'[a].file_size_bytes = 0]_vars

\* The request keys of the rows of post p.
KeysOf(p) == {r.request_key : r \in {q \in requests : q.post_link = p}}

\* C32: once a post has an analysis, no request row is added for it and no
\* request file is built that holds a request of it.
C32_AnalysedItemIsTerminal ==
    [][\A p \in DOMAIN analysis :
          analysis[p] # "none" =>
              /\ \A r \in requests' : r.post_link = p => r.request_key \in KeysOf(p)
              /\ Len(batches') > Len(batches) =>
                    batches'[Len(batches')].keys \cap KeysOf(p) = {}]_vars

\* C33: every fan-out sends one task for every identifier of every post
\* whose is_processed is not true, also when another identifier of the same
\* post is processed, with the identifier, the post and the path
\* analysis.promotions.i.identifiers.j, and no task for an identifier whose
\* is_processed is true.
C33_FanOutEmitsUnprocessed ==
    [][(tick.stage = Len(TickOps) + 1 /\ tick'.stage = 0) =>
          tasks'.emitted = {TaskOf(x) : x \in FanOutUnwound}]_vars

\* C39: an identifier whose is_processed is true keeps it true, by
\* whatever step, a later run of process_completed_jobs included, and no
\* fan-out sends a task for it.
C39_ProcessedStaysProcessed ==
    [][\A x \in processed :
          /\ x \in processed'
          /\ tasks'.emitted # tasks.emitted =>
                \A t \in tasks'.emitted :
                      <<t.post, t.path[1], t.path[2]>> # x]_vars

\* C34: no temporary request file is on the disk when submit_batch passes
\* to the next Job or returns, whatever the turn of the loop ended with: the
\* batch created, an error while the file was written, an upload error or a
\* creation error.
C34_NoTempFileLeft == tempFiles = {}

\* C35: a request row is added only for a post whose text is there and is
\* not empty.
C35_OnlyNonEmptyTextRegistered ==
    [][\A r \in requests' :
          r.request_key \notin {q.request_key : q \in requests} =>
              text[r.post_link] = "text"]_vars

\* C36: the size register measures for an Item is the byte length of the
\* line submit_batch writes for it.
C36_EstimateIsLineLength ==
    (sizing.estimated # NULL /\ sizing.written # NULL) =>
        sizing.estimated = sizing.written

\* The provider batches created for Job j.
BatchesOf(j) == {h \in DOMAIN batches : batches[h].job = j}

\* C37: at most one provider batch is ever created for a Job, also when two
\* submit_batch runs overlap.
C37_OneBatchPerJob == \A j \in JobIds : Cardinality(BatchesOf(j)) <= 1

\* The Jobs whose request file was built: those some batch was created for.
FileBuilt == {batches[h].job : h \in DOMAIN batches}

\* C38: a request row is added only to a Job that is ACCEPTING_REQUESTS at
\* that moment, and never to a Job whose request file was built.
C38_AddedToAcceptingOnly ==
    [][\A r \in requests' :
          r.request_key \notin {q.request_key : q \in requests} =>
              /\ r.batch_job_id \in DOMAIN jobs =>
                    jobs[r.batch_job_id].status = ACCEPTING_REQUESTS
              /\ r.batch_job_id \notin FileBuilt]_vars

\* C40: when a register call returns True for a post, a request row of
\* that post is in the table, also when another post with the same title
\* and text is registered: registering one post never makes another count
\* as registered.
C40_TwinRegisteredOnItsOwn ==
    [][\A w \in Workers :
          (/\ pc[w] # "idle" /\ pc'[w] = "idle"
           /\ loc[w].op = "register"
           /\ ret'[w] = "True") =>
              \E r \in requests' : r.post_link = loc[w].post]_vars

=========================================================================
